---- MODULE Spec2Model ----
(***************************************************************************)
(* The checks controller of the API daemon                                 *)
(* (backend/apid/controllers/checks.go): the handlers `many` and `single`, *)
(* the in-place filter rejectChecks, and the store, the caller's abilities *)
(* and the http.ResponseWriter they act on.                                *)
(*                                                                         *)
(* A handler invocation is cut into one action per code segment, each      *)
(* segment ending at a store call or at a return.  The record h holds the  *)
(* running invocation: the request, the handler's locals, the response     *)
(* written so far, and the ordered log of the ability evaluations, store   *)
(* calls and response writes it has made.                                  *)
(*                                                                         *)
(* Spec runs one invocation at a time.  SpecConc runs two requests         *)
(* concurrently: parked holds the invocation that is not scheduled, and    *)
(* the scheduler may switch between the two after any segment, which       *)
(* yields every interleaving of their store calls.                         *)
(***************************************************************************)
EXTENDS Naturals, Integers, Sequences, FiniteSets

VARIABLES store, h, parked

vars == <<store, h, parked>>

(***************************************************************************)
(* Bounds of the model.                                                    *)
(***************************************************************************)
\* Number of distinct check names (the store holds at most one check per name).
NumNames == 3

NamePool == <<"a", "b", "c", "d", "e">>

Names == {NamePool[i] : i \in 1..NumNames}

\* Commands a check may carry.  "" is the zero value (a body without the
\* field); "df 10%" is a command whose JSON text contains a '%'.
Commands == {"", "true", "df 10%"}

(***************************************************************************)
(* HTTP status codes used by the handlers.                                 *)
(***************************************************************************)
StatusOK == 200

StatusBadRequest == 400

StatusUnauthorized == 401

StatusNotFound == 404

StatusInternalServerError == 500

(***************************************************************************)
(* types.CheckConfig                                                       *)
(***************************************************************************)
CheckConfig == [name : Names, command : Commands]

\* A *types.CheckConfig is the empty sequence (nil) or <<c>> (a pointer to c).
Nil == <<>>

Ptr(c) == <<c>>

Deref(p) == p[1]

\* &types.CheckConfig{}: the zero value.
ZeroCheck == [name |-> "", command |-> ""]

\* CheckConfig.Validate(): nil error iff the check is well-formed.
Validate(c) == c.name # "" /\ c.command # ""

(***************************************************************************)
(* encoding/json and fmt                                                   *)
(*                                                                         *)
(* A byte string is a record: kind says what the bytes are, text is set    *)
(* for plain text and data for the JSON encoding of checks.                *)
(***************************************************************************)
Text(s) == [kind |-> "text", text |-> s, data |-> <<>>]

Empty == Text("")

\* json.Marshal of a *CheckConfig (a nil pointer encodes as null).
MarshalCheck(p) ==
  IF p = Nil THEN [kind |-> "null", text |-> "", data |-> <<>>]
  ELSE [kind |-> "object", text |-> "", data |-> <<Deref(p)>>]

\* json.Marshal of a []*CheckConfig.
MarshalChecks(cs) == [kind |-> "array", text |-> "", data |-> cs]

\* json.Unmarshal into a CheckConfig: only the encoding of an object decodes.
UnmarshalOK(b) == b.kind = "object"

Unmarshal(b) == b.data[1]

\* The text holds a '%', which fmt reads as the start of a formatting verb.
HasVerb(b) == \E i \in 1..Len(b.data) : b.data[i].command = "df 10%"

\* fmt.Sprintf(format) with no operands: text without '%' is copied, a verb
\* without operand is replaced by an error marker such as %!"(MISSING).
Sprintf(format) ==
  IF HasVerb(format) THEN [format EXCEPT !.kind = "garbled"] ELSE format

(***************************************************************************)
(* store.Store: an ordered collection of checks, one per name.             *)
(***************************************************************************)
StoreNames(s) == {s[i].name : i \in 1..Len(s)}

GetCheckConfigs(s) == s

GetCheckConfigByName(s, name) ==
  IF name \in StoreNames(s)
  THEN Ptr(s[CHOOSE i \in 1..Len(s) : s[i].name = name])
  ELSE Nil

UpdateCheckConfig(s, c) ==
  IF c.name \in StoreNames(s)
  THEN [i \in 1..Len(s) |-> IF s[i].name = c.name THEN c ELSE s[i]]
  ELSE Append(s, c)

DeleteCheckConfigByName(s, name) ==
  LET Keep(c) == c.name # name IN SelectSeq(s, Keep)

(***************************************************************************)
(* authorization.Checks.WithContext(ctx): the caller's abilities.  The     *)
(* instance-scoped predicates are given by the names they grant.           *)
(***************************************************************************)
NoAbilities ==
  [canList |-> FALSE, canDelete |-> FALSE,
   canRead |-> {}, canCreate |-> {}, canUpdate |-> {}]

CanList(ab) == ab.canList

CanDelete(ab) == ab.canDelete

CanRead(ab, c) == c.name \in ab.canRead

CanCreate(ab, c) == c.name \in ab.canCreate

CanUpdate(ab, c) == c.name \in ab.canUpdate

(***************************************************************************)
(* http.ResponseWriter                                                     *)
(***************************************************************************)
NewResponse ==
  [wroteHeader |-> FALSE, status |-> 0, header |-> "", contentType |-> "",
   body |-> <<>>]

\* w.Header().Set("Content-Type", v): changes the header map only; what was
\* sent with the status line stays as sent.
SetContentType(w, v) == [w EXCEPT !.header = v]

\* w.WriteHeader(code): the first call sends the status line and the headers,
\* later calls are ignored.
WriteHeader(w, code) ==
  IF w.wroteHeader THEN w
  ELSE [w EXCEPT !.wroteHeader = TRUE, !.status = code,
                 !.contentType = w.header]

\* w.Write(b): sends 200 first when no status was sent, with a Content-Type
\* sniffed from the data when none was set (JSON text sniffs as text/plain).
Write(w, b) ==
  LET w1 == IF w.wroteHeader THEN w
            ELSE WriteHeader(
                   IF w.header = "" /\ b # Empty
                   THEN SetContentType(w, "text/plain; charset=utf-8")
                   ELSE w,
                   StatusOK)
  IN [w1 EXCEPT !.body = Append(w1.body, b)]

\* fmt.Fprintf(w, format): one Write of the formatted text.
Fprintf(w, format) == Write(w, Sprintf(format))

\* http.Error(w, msg, code)
HttpError(w, msg, code) ==
  Write(WriteHeader(SetContentType(w, "text/plain; charset=utf-8"), code),
        Text(msg))

\* http.NotFound(w, r)
NotFound(w) == HttpError(w, "404 page not found", StatusNotFound)

\* authorization.UnauthorizedAccessToResource(w)
UnauthorizedAccessToResource(w) ==
  HttpError(w, "Not authorized to access this resource", StatusUnauthorized)

\* The server ends the response when the handler returns: a handler that
\* wrote nothing answers 200 with an empty body.
Finish(w) == WriteHeader(w, StatusOK)

(***************************************************************************)
(* rejectChecks                                                            *)
(***************************************************************************)
\* append((*records)[:i], (*records)[i+1:]...), i counted from 0.
RemoveAt(records, i) ==
  SubSeq(records, 1, i) \o SubSeq(records, i + 2, Len(records))

RECURSIVE RejectLoopNoDecrement(_, _, _, _)
\* The loop without the i-- after a removal.
RejectLoopNoDecrement(records, i, ab, visited) ==
  IF i < Len(records)
  THEN LET c == records[i + 1] IN
       IF ~CanRead(ab, c)
       THEN RejectLoopNoDecrement(RemoveAt(records, i), i + 1, ab,
                                  Append(visited, c))
       ELSE RejectLoopNoDecrement(records, i + 1, ab, Append(visited, c))
  ELSE [records |-> records, visited |-> visited]

RECURSIVE RejectLoopRestart(_, _, _, _)
\* The loop starting over from index 0 after a removal.
RejectLoopRestart(records, i, ab, visited) ==
  IF i < Len(records)
  THEN LET c == records[i + 1] IN
       IF ~CanRead(ab, c)
       THEN RejectLoopRestart(RemoveAt(records, i), 0, ab, Append(visited, c))
       ELSE RejectLoopRestart(records, i + 1, ab, Append(visited, c))
  ELSE [records |-> records, visited |-> visited]

RECURSIVE RejectLoop(_, _, _, _)
\* The for loop of rejectChecks from index i on; visited collects the
\* elements the predicate was evaluated on, in order.
RejectLoop(records, i, ab, visited) ==
  IF i < Len(records)
  THEN LET c == records[i + 1] IN
       IF ~CanRead(ab, c)
       THEN RejectLoop(RemoveAt(records, i), (i - 1) + 1, ab,
                       Append(visited, c))
       ELSE RejectLoop(records, i + 1, ab, Append(visited, c))
  ELSE [records |-> records, visited |-> visited]

rejectChecks(records, ab) == RejectLoop(records, 0, ab, <<>>)

(***************************************************************************)
(* Requests: what Register routes to the two handlers.                     *)
(***************************************************************************)
\* The request body could not be read (ioutil.ReadAll fails).
Unreadable == [kind |-> "unreadable", text |-> "", data |-> <<>>]

\* Bytes that are not the JSON encoding of a check.
Malformed == Text("{")

Candidates == [name : Names, command : Commands]

Bodies == {Unreadable, Malformed} \cup {MarshalCheck(Ptr(c)) : c \in Candidates}

\* The names a request mentions: its URL variable and its body's name.  The
\* abilities of a request's caller are drawn over the names it mentions.
Mentioned(name, body) ==
  (IF name = "" THEN {} ELSE {name})
    \cup (IF UnmarshalOK(body) THEN {Unmarshal(body).name} ELSE {})

\* GET /checks
ListRequests ==
  { [route |-> "many", method |-> "GET", name |-> "", body |-> Empty,
     abilities |-> [NoAbilities EXCEPT !.canList = l, !.canRead = rd]] :
    l \in BOOLEAN, rd \in SUBSET Names }

\* GET /checks/{name}
GetRequestsFor(n) ==
  { [route |-> "single", method |-> "GET", name |-> n, body |-> Empty,
     abilities |-> [NoAbilities EXCEPT !.canRead = rd]] :
    rd \in SUBSET Mentioned(n, Empty) }

GetRequests == UNION {GetRequestsFor(n) : n \in Names}

\* DELETE /checks/{name}
DeleteRequests ==
  { [route |-> "single", method |-> "DELETE", name |-> n, body |-> Empty,
     abilities |-> [NoAbilities EXCEPT !.canDelete = d]] :
    n \in Names, d \in BOOLEAN }

\* POST /checks (no name variable), PUT and POST /checks/{name}
UpsertTargets ==
  {<<"POST", "">>} \cup {<<m, n>> : m \in {"PUT", "POST"}, n \in Names}

UpsertRequestsFor(t, b) ==
  { [route |-> "single", method |-> t[1], name |-> t[2], body |-> b,
     abilities |-> [NoAbilities EXCEPT !.canCreate = cr, !.canUpdate = up]] :
    cr \in SUBSET Mentioned(t[2], b), up \in SUBSET Mentioned(t[2], b) }

UpsertRequests ==
  UNION {UpsertRequestsFor(t, b) : t \in UpsertTargets, b \in Bodies}

Requests == ListRequests \cup GetRequests \cup DeleteRequests \cup UpsertRequests

(***************************************************************************)
(* The handler invocation                                                  *)
(***************************************************************************)
Idle ==
  [pc |-> "idle", route |-> "", method |-> "", name |-> "", body |-> Empty,
   abilities |-> NoAbilities, check |-> Nil, checks |-> <<>>,
   newCheck |-> ZeroCheck, w |-> NewResponse, log |-> <<>>, store0 |-> <<>>]

\* One entry of the log: an ability evaluation, a store call or a write to
\* the response, with its argument and its outcome.
Evt(op, arg, res) == [op |-> op, arg |-> arg, res |-> res]

Bool(b) == IF b THEN "true" ELSE "false"

Err(e) == IF e THEN "error" ELSE "ok"

\* The handler returns: the server ends the response.
Return(inv) == [inv EXCEPT !.pc = "done", !.w = Finish(inv.w)]

\* The error is dropped: the handler returns without reporting it.
FailIgnored(inv, msg, code, events) ==
  Return([inv EXCEPT !.log = inv.log \o events])

\* http.Error followed by return.
Fail(inv, msg, code, events) ==
  Return([inv EXCEPT !.w = HttpError(inv.w, msg, code),
                     !.log = inv.log \o events
                               \o <<Evt("http.Error", msg, "written")>>])

Init ==
  /\ store = <<>>
  /\ h = Idle
  /\ parked = Idle

\* The router hands a request to its handler.
Receive ==
  /\ h.pc = "idle"
  /\ \E req \in Requests :
       h' = [Idle EXCEPT !.pc = req.route, !.route = req.route,
                         !.method = req.method, !.name = req.name,
                         !.body = req.body, !.abilities = req.abilities,
                         !.store0 = store]
  /\ UNCHANGED <<store, parked>>

\* The response is sent and the invocation's state is dropped.
Respond ==
  /\ h.pc = "done"
  /\ h' = Idle
  /\ UNCHANGED <<store, parked>>

(***************************************************************************)
(* many: GET /checks                                                       *)
(***************************************************************************)
\* Line 31: the request is refused.
ListDenied(method, ab) == method = "GET" /\ ~CanList(ab)

\* Lines 30-34: the list ability.
Many ==
  /\ h.pc = "many"
  /\ LET evals == IF h.method = "GET"
                  THEN <<Evt("CanList", "", Bool(CanList(h.abilities)))>>
                  ELSE <<>>
     IN IF ListDenied(h.method, h.abilities)
        THEN h' = Return([h EXCEPT
                     !.w = UnauthorizedAccessToResource(h.w),
                     !.log = h.log \o evals
                               \o <<Evt("http.Error", "unauthorized", "written")>>])
        ELSE h' = [h EXCEPT !.pc = "many_fetch", !.log = h.log \o evals]
  /\ UNCHANGED <<store, parked>>

\* Lines 36-40: fetch the collection.
ManyFetch ==
  /\ h.pc = "many_fetch"
  /\ \E err \in BOOLEAN :
       LET call == <<Evt("GetCheckConfigs", "", Err(err))>> IN
       IF err
       THEN h' = Fail(h, "store error", StatusInternalServerError, call)
       ELSE h' = [h EXCEPT !.pc = "many_respond",
                           !.checks = GetCheckConfigs(store),
                           !.log = h.log \o call]
  /\ UNCHANGED <<store, parked>>

\* Lines 45-51: serialize the filtered list and write it.  A Marshal error is
\* reported and the handler goes on to the header and the body (line 48 has
\* no return).
ManyWrite(w, checks, marshalErr) ==
  LET checksBytes == IF marshalErr THEN Empty ELSE MarshalChecks(checks)
      w1 == IF marshalErr
            THEN HttpError(w, "marshal error", StatusInternalServerError)
            ELSE w
      w2 == SetContentType(w1, "application/json")
  IN Fprintf(w2, checksBytes)

\* Lines 43-51: filter, serialize, write.
ManyRespond ==
  /\ h.pc = "many_respond"
  /\ \E marshalErr \in BOOLEAN :
       LET r == rejectChecks(h.checks, h.abilities)
           evals == [i \in 1..Len(r.visited) |->
                       Evt("CanRead", r.visited[i].name,
                           Bool(CanRead(h.abilities, r.visited[i])))]
       IN h' = Return([h EXCEPT
                  !.checks = r.records,
                  !.w = ManyWrite(h.w, r.records, marshalErr),
                  !.log = h.log \o evals
                            \o (IF marshalErr
                                THEN <<Evt("http.Error", "marshal error", "written")>>
                                ELSE <<>>)
                            \o <<Evt("Fprintf", "", "written")>>])
  /\ UNCHANGED <<store, parked>>

(***************************************************************************)
(* single: /checks/{name} and POST /checks                                 *)
(***************************************************************************)
\* The delete ability is not asked.
DeleteDeniedNever(method, ab) == FALSE

\* Line 61: the request is refused.
DeleteDenied(method, ab) == method = "DELETE" /\ ~CanDelete(ab)

\* The lookup is made for every method.
NeedsLookupAlways(method) == TRUE

\* The lookup is made for GET only.
NeedsLookupGetOnly(method) == method = "GET"

\* Line 71: the methods that look the check up by name first.
NeedsLookup(method) == method \in {"GET", "DELETE"}

\* The GET case runs the delete.
DispatchGetDeletes(method) ==
  CASE method \in {"PUT", "POST"} -> "decode"
    [] method \in {"GET", "DELETE"} -> "delete"

\* Line 84: the switch on the method.
Dispatch(method) ==
  CASE method = "GET" -> "get"
    [] method \in {"PUT", "POST"} -> "decode"
    [] method = "DELETE" -> "delete"

\* Lines 56-64: the delete ability.
Single ==
  /\ h.pc = "single"
  /\ LET evals == IF h.method = "DELETE"
                  THEN <<Evt("CanDelete", "", Bool(CanDelete(h.abilities)))>>
                  ELSE <<>>
     IN IF DeleteDenied(h.method, h.abilities)
        THEN h' = Return([h EXCEPT
                     !.w = UnauthorizedAccessToResource(h.w),
                     !.log = h.log \o evals
                               \o <<Evt("http.Error", "unauthorized", "written")>>])
        ELSE h' = [h EXCEPT
                     !.pc = IF NeedsLookup(h.method) THEN "lookup"
                            ELSE Dispatch(h.method),
                     !.log = h.log \o evals]
  /\ UNCHANGED <<store, parked>>

\* Lines 71-82: for GET and DELETE, look the check up by name.
SingleLookup ==
  /\ h.pc = "lookup"
  /\ \E err \in BOOLEAN :
       LET call == <<Evt("GetCheckConfigByName", h.name, Err(err))>>
           check == GetCheckConfigByName(store, h.name)
       IN IF err
          THEN h' = Fail(h, "store error", StatusInternalServerError, call)
          ELSE IF check = Nil
          THEN h' = Return([h EXCEPT
                       !.w = NotFound(h.w),
                       !.log = h.log \o call
                                 \o <<Evt("http.Error", "not found", "written")>>])
          ELSE h' = [h EXCEPT
                       !.pc = Dispatch(h.method),
                       !.check = check,
                       !.log = h.log \o call]
  /\ UNCHANGED <<store, parked>>

\* Lines 85-97: serialize, then the read ability, then the body.
SingleGet ==
  /\ h.pc = "get"
  /\ \E marshalErr \in BOOLEAN :
       IF marshalErr
       THEN h' = Fail(h, "marshal error", StatusInternalServerError, <<>>)
       ELSE LET checkBytes == MarshalCheck(h.check)
                allowed == CanRead(h.abilities, Deref(h.check))
                evals == <<Evt("CanRead", Deref(h.check).name, Bool(allowed))>>
            IN IF ~allowed
               THEN h' = Return([h EXCEPT
                            !.w = UnauthorizedAccessToResource(h.w),
                            !.log = h.log \o evals
                                      \o <<Evt("http.Error", "unauthorized", "written")>>])
               ELSE h' = Return([h EXCEPT
                            !.w = Fprintf(h.w, checkBytes),
                            !.log = h.log \o evals
                                      \o <<Evt("Fprintf", "", "written")>>])
  /\ UNCHANGED <<store, parked>>

\* The candidate is not validated.
DecodeErrorNoValidate(body) ==
  IF body = Unreadable THEN "read error"
  ELSE IF ~UnmarshalOK(body) THEN "decode error"
  ELSE ""

\* Lines 100-116: the error of reading, decoding and validating the body, ""
\* when there is none.
DecodeError(body) ==
  IF body = Unreadable THEN "read error"
  ELSE IF ~UnmarshalOK(body) THEN "decode error"
  ELSE IF ~Validate(Unmarshal(body)) THEN "validation error"
  ELSE ""

\* The switch refuses nothing.
DeniedNever(check, ab, newCheck) == FALSE

\* Lines 118-121: the cases of the switch that refuse the request.
Denied(check, ab, newCheck) ==
  \/ check = Nil /\ ~CanCreate(ab, newCheck)
  \/ check # Nil /\ ~CanUpdate(ab, newCheck)

\* Lines 118-121: the ability the switch evaluates.  The first case asks
\* CanCreate only when check is nil, the second CanUpdate only when it is not.
SwitchEvals(check, ab, newCheck) ==
  IF check = Nil
  THEN <<Evt("CanCreate", newCheck.name, Bool(CanCreate(ab, newCheck)))>>
  ELSE <<Evt("CanUpdate", newCheck.name, Bool(CanUpdate(ab, newCheck)))>>

\* Lines 99-124: read and decode the body, validate the candidate, then the
\* create or update ability, chosen by whether check is nil.
SingleDecode ==
  /\ h.pc = "decode"
  /\ LET error == DecodeError(h.body) IN
     IF error = "read error"
     THEN h' = Fail(h, error, StatusInternalServerError, <<>>)
     ELSE IF error = "decode error"
     THEN h' = Fail(h, error, StatusBadRequest, <<>>)
     ELSE LET newCheck == Unmarshal(h.body)
              evals == SwitchEvals(h.check, h.abilities, newCheck)
          IN IF error = "validation error"
             THEN h' = Fail([h EXCEPT !.newCheck = newCheck],
                            error, StatusBadRequest, <<>>)
             ELSE IF Denied(h.check, h.abilities, newCheck)
             THEN h' = Return([h EXCEPT
                          !.newCheck = newCheck,
                          !.w = UnauthorizedAccessToResource(h.w),
                          !.log = h.log \o evals
                                    \o <<Evt("http.Error", "unauthorized", "written")>>])
             ELSE h' = [h EXCEPT !.pc = "update", !.newCheck = newCheck,
                                 !.log = h.log \o evals]
  /\ UNCHANGED <<store, parked>>

\* The candidate is written into the store content the request started
\* from, as if the handler kept its own copy of the collection.
SingleUpdateStale ==
  /\ UNCHANGED parked
  /\ h.pc = "update"
  /\ \E err \in BOOLEAN :
       LET call == <<Evt("UpdateCheckConfig", h.newCheck.name, Err(err))>> IN
       IF err
       THEN /\ h' = Fail(h, "store error", StatusInternalServerError, call)
            /\ UNCHANGED store
       ELSE /\ h' = Return([h EXCEPT !.log = h.log \o call])
            /\ store' = UpdateCheckConfig(h.store0, h.newCheck)

\* Lines 126-131: persist the candidate.
SingleUpdate ==
  /\ UNCHANGED parked
  /\ h.pc = "update"
  /\ \E err \in BOOLEAN :
       LET call == <<Evt("UpdateCheckConfig", h.newCheck.name, Err(err))>> IN
       IF err
       THEN /\ h' = Fail(h, "store error", StatusInternalServerError, call)
            /\ UNCHANGED store
       ELSE /\ h' = Return([h EXCEPT !.log = h.log \o call])
            /\ store' = UpdateCheckConfig(store, h.newCheck)

\* Lines 133-138: delete by name.
SingleDelete ==
  /\ UNCHANGED parked
  /\ h.pc = "delete"
  /\ \E err \in BOOLEAN :
       LET call == <<Evt("DeleteCheckConfigByName", h.name, Err(err))>> IN
       IF err
       THEN /\ h' = Fail(h, "store error", StatusInternalServerError, call)
            /\ UNCHANGED store
       ELSE /\ h' = Return([h EXCEPT !.log = h.log \o call])
            /\ store' = DeleteCheckConfigByName(store, h.name)

Next ==
  \/ Receive
  \/ Many
  \/ ManyFetch
  \/ ManyRespond
  \/ Single
  \/ SingleLookup
  \/ SingleGet
  \/ SingleDecode
  \/ SingleUpdate
  \/ SingleDelete
  \/ Respond

Spec == Init /\ [][Next]_vars

TypeOK ==
  /\ h.pc \in {"idle", "many", "many_fetch", "many_respond", "single",
               "lookup", "get", "decode", "update", "delete", "done"}
  /\ \A i \in 1..Len(store) : store[i] \in CheckConfig

(***************************************************************************)
(* Vocabulary of the properties                                            *)
(***************************************************************************)
StoreOps ==
  {"GetCheckConfigs", "GetCheckConfigByName", "UpdateCheckConfig",
   "DeleteCheckConfigByName"}

MutationOps == {"UpdateCheckConfig", "DeleteCheckConfigByName"}

AbilityOps == {"CanList", "CanRead", "CanCreate", "CanUpdate", "CanDelete"}

\* The entries of the invocation's log whose operation is in ops, in order.
Logged(ops) == LET In(e) == e.op \in ops IN SelectSeq(h.log, In)

Done == h.pc = "done"

IsList == h.route = "many" /\ h.method = "GET"

IsGet == h.route = "single" /\ h.method = "GET"

IsUpsert == h.route = "single" /\ h.method \in {"PUT", "POST"}

IsDelete == h.route = "single" /\ h.method = "DELETE"

\* The upsert's body decodes to a candidate that passes Validate().
ValidBody == UnmarshalOK(h.body) /\ Validate(Unmarshal(h.body))

\* No store call of the invocation failed and no Marshal failed.
NoBackendFailure ==
  /\ \A i \in 1..Len(h.log) : h.log[i].res # "error"
  /\ \A i \in 1..Len(h.log) :
       ~(h.log[i].op = "http.Error" /\ h.log[i].arg = "marshal error")

\* The caller's readable checks among cs, in order.
Readable(cs) ==
  LET Ok(c) == CanRead(h.abilities, c) IN SelectSeq(cs, Ok)

C2_UpsertAbilityFollowsExistence ==
  (Done /\ IsUpsert /\ h.name # "" /\ ValidBody)
  => Logged(AbilityOps) =
       IF h.name \in StoreNames(h.store0)
       THEN <<Evt("CanUpdate", h.newCheck.name,
                  Bool(CanUpdate(h.abilities, h.newCheck)))>>
       ELSE <<Evt("CanCreate", h.newCheck.name,
                  Bool(CanCreate(h.abilities, h.newCheck)))>>

(***************************************************************************)
(* C3.  When the store holds a check named Y and CanUpdate is false for    *)
(* the candidate, an upsert to Y ends with the authorization error and     *)
(* leaves the stored check Y unchanged.                                    *)
(***************************************************************************)
C3_UpdateDeniedLeavesCheck ==
  (Done /\ IsUpsert /\ ValidBody
     /\ h.name \in StoreNames(h.store0)
     /\ ~CanUpdate(h.abilities, Unmarshal(h.body)))
  => /\ h.w.status = StatusUnauthorized
     /\ GetCheckConfigByName(store, h.name)
          = GetCheckConfigByName(h.store0, h.name)

(***************************************************************************)
(* C4.  Once the ability an upsert or delete evaluates has answered false  *)
(* (CanCreate or CanUpdate for an upsert, CanDelete for a delete), the     *)
(* invocation makes no UpdateCheckConfig and no DeleteCheckConfigByName    *)
(* call and the store is as the request found it.                          *)
(***************************************************************************)
C4_DeniedMeansNoMutation ==
  ((IsUpsert \/ IsDelete)
     /\ \E i \in 1..Len(h.log) :
          /\ h.log[i].op \in {"CanCreate", "CanUpdate", "CanDelete"}
          /\ h.log[i].res = "false")
  => /\ Logged(MutationOps) = <<>>
     /\ store = h.store0

\* An upsert over an existing check, denied.
C4_Witness ==
  /\ Done /\ IsUpsert
  /\ h.newCheck.name \in StoreNames(h.store0)
  /\ GetCheckConfigByName(h.store0, h.newCheck.name) # Ptr(h.newCheck)
  /\ Logged(AbilityOps) = <<Evt("CanCreate", h.newCheck.name, "false")>>
  /\ h.w.status = StatusUnauthorized

(***************************************************************************)
(* C5.  An upsert whose body does not decode, or whose candidate fails     *)
(* Validate(), evaluates no ability and makes no store call at any point   *)
(* of the invocation, and answers 400.                                     *)
(***************************************************************************)
C5_InvalidBodyStopsEarly ==
  (IsUpsert /\ h.body # Unreadable /\ ~ValidBody)
  => /\ Logged(AbilityOps \cup StoreOps) = <<>>
     /\ store = h.store0
     /\ Done => h.w.status = StatusBadRequest

\* A candidate that fails Validate(), sent over an existing check by a caller
\* who may create and update it.
C5_Witness ==
  /\ Done /\ IsUpsert
  /\ UnmarshalOK(h.body) /\ ~Validate(Unmarshal(h.body))
  /\ h.name \in StoreNames(h.store0)
  /\ CanCreate(h.abilities, Unmarshal(h.body))
  /\ CanUpdate(h.abilities, Unmarshal(h.body))
  /\ h.w.status = StatusBadRequest

(***************************************************************************)
(* C6.  A GET of one check whose lookup and serialization do not fail is   *)
(* decided by existence first, authorization second: 404 without asking    *)
(* CanRead when the store holds no check of that name; the authorization   *)
(* error when it holds one and CanRead is false for it; 200 with that      *)
(* check's JSON as the body when CanRead holds.                            *)
(***************************************************************************)
C6_GetExistenceThenRead ==
  (Done /\ IsGet /\ NoBackendFailure)
  => LET found == GetCheckConfigByName(h.store0, h.name) IN
     IF found = Nil
     THEN /\ h.w.status = StatusNotFound
          /\ Logged(AbilityOps) = <<>>
     ELSE IF ~CanRead(h.abilities, Deref(found))
     THEN h.w.status = StatusUnauthorized
     ELSE /\ h.w.status = StatusOK
          /\ h.w.body = <<MarshalCheck(found)>>

C8_AbilityBeforeStore ==
  /\ (IsList \/ IsDelete)
     => \A i \in 1..Len(h.log) :
          h.log[i].op \in StoreOps
          => \E j \in 1..(i - 1) :
               h.log[j] = Evt(IF IsList THEN "CanList" ELSE "CanDelete",
                              "", "true")
  /\ ((IsList /\ ~CanList(h.abilities)) \/ (IsDelete /\ ~CanDelete(h.abilities)))
     => /\ Logged(StoreOps) = <<>>
        /\ store = h.store0
        /\ Done => h.w.status = StatusUnauthorized

\* A delete of an existing check by a caller without CanDelete.
C8_Witness ==
  /\ Done /\ IsDelete /\ ~CanDelete(h.abilities)
  /\ h.name \in StoreNames(h.store0)
  /\ h.log = <<Evt("CanDelete", "", "false"),
               Evt("http.Error", "unauthorized", "written")>>
  /\ h.w.status = StatusUnauthorized

(***************************************************************************)
(* C9.  After an upsert to /checks/{X} that answers 200 the store holds a  *)
(* check named X, whatever name the valid body carries.                    *)
(***************************************************************************)
C9_UpsertStoresUnderUrlName ==
  (Done /\ IsUpsert /\ h.name # "" /\ h.w.status = StatusOK)
  => h.name \in StoreNames(store)

(***************************************************************************)
(* C10.  The first failure of an invocation is terminal: nothing is        *)
(* logged after the error response (no store call, no further write), and  *)
(* a response with an error status carries the error text and no other     *)
(* write.                                                                  *)
(***************************************************************************)
C10_FirstFailureIsTerminal ==
  /\ \A i \in 1..Len(h.log) : h.log[i].op = "http.Error" => i = Len(h.log)
  /\ h.w.status >= StatusBadRequest => Len(h.w.body) = 1

C12_CollectionPostCreates ==
  (IsUpsert /\ h.name = "")
  => /\ Logged({"GetCheckConfigByName", "GetCheckConfigs", "CanUpdate",
                "DeleteCheckConfigByName"}) = <<>>
     /\ (Done /\ ValidBody)
        => Logged(AbilityOps) =
             <<Evt("CanCreate", Unmarshal(h.body).name,
                   Bool(CanCreate(h.abilities, Unmarshal(h.body))))>>
     /\ (Done /\ h.w.status = StatusOK)
        => /\ Logged(StoreOps) =
                <<Evt("UpdateCheckConfig", Unmarshal(h.body).name, "ok")>>
           /\ GetCheckConfigByName(store, Unmarshal(h.body).name)
                = Ptr(Unmarshal(h.body))

\* A collection POST of a candidate whose name the store already holds, by
\* a caller who may create but not update it.
C12_Witness ==
  /\ Done /\ IsUpsert /\ h.name = ""
  /\ h.newCheck.name \in StoreNames(h.store0)
  /\ ~CanUpdate(h.abilities, h.newCheck)
  /\ h.w.status = StatusOK
  /\ GetCheckConfigByName(store, h.newCheck.name) = Ptr(h.newCheck)

(***************************************************************************)
(* C13.  Every response that carries resource data, the list response and  *)
(* the 200 response of a GET of one check, is sent with Content-Type       *)
(* application/json.                                                       *)
(***************************************************************************)
C13_DataIsSentAsJson ==
  (Done /\ (IsList \/ IsGet) /\ h.w.status = StatusOK /\ h.w.body # <<>>)
  => h.w.contentType = "application/json"

(***************************************************************************)
(* C14.  A list request and a GET of one check make read calls only        *)
(* (GetCheckConfigs, GetCheckConfigByName), never an upsert or a delete,   *)
(* and leave the store as they found it at every point of the invocation,  *)
(* whatever the outcome; filtering the fetched list changes the handler's  *)
(* list, not the store's.                                                  *)
(***************************************************************************)
C14_ReadsLeaveStore ==
  (IsList \/ IsGet)
  => /\ \A i \in 1..Len(h.log) :
          h.log[i].op \in StoreOps
          => h.log[i].op = (IF IsList THEN "GetCheckConfigs"
                            ELSE "GetCheckConfigByName")
     /\ store = h.store0

\* A list that filtered checks out of a full store.
C14_Witness ==
  /\ Done /\ IsList
  /\ Len(store) = NumNames
  /\ Len(h.checks) < Len(store)
  /\ h.w.status = StatusOK

\* The store contents that differ from s only by leaving out checks the
\* caller cannot read.
WithoutUnreadable(s) ==
  LET hidden == {i \in 1..Len(s) : ~CanRead(h.abilities, s[i])}
      Drop(out) ==
        LET F[i \in 0..Len(s)] ==
              IF i = 0 THEN <<>>
              ELSE IF i \in out THEN F[i - 1] ELSE Append(F[i - 1], s[i])
        IN F[Len(s)]
  IN {Drop(out) : out \in SUBSET hidden}

\* The response of many over the store content s, for the caller and the
\* failures of the invocation at hand.
ListResponseOver(s) ==
  LET fetchErr == Logged({"GetCheckConfigs"}) = <<Evt("GetCheckConfigs", "", "error")>>
      marshalErr == \E i \in 1..Len(h.log) :
                      h.log[i] = Evt("http.Error", "marshal error", "written")
  IN IF ListDenied("GET", h.abilities)
     THEN Finish(UnauthorizedAccessToResource(NewResponse))
     ELSE IF fetchErr
     THEN Finish(HttpError(NewResponse, "store error", StatusInternalServerError))
     ELSE Finish(ManyWrite(NewResponse, rejectChecks(s, h.abilities).records,
                           marshalErr))

(***************************************************************************)
(* C15.  The list response does not depend on the checks the caller cannot *)
(* read: over any store content got from the request's by leaving out      *)
(* non-readable checks (so over any two contents with the same readable    *)
(* subsequence, both having that subsequence as such a content) the same   *)
(* caller's list request yields the same response.                         *)
(***************************************************************************)
C15_ListHidesUnreadable ==
  (Done /\ IsList)
  => \A s2 \in WithoutUnreadable(h.store0) : h.w = ListResponseOver(s2)

\* A list by a caller who can read one of three stored checks.
C15_Witness ==
  /\ Done /\ IsList /\ CanList(h.abilities)
  /\ Len(h.store0) = 3
  /\ Len(Readable(h.store0)) = 1
  /\ Cardinality(WithoutUnreadable(h.store0)) = 4
  /\ h.w.status = StatusOK

(***************************************************************************)
(* C17.  rejectChecks ends after evaluating the predicate exactly once on  *)
(* each element of its input, in order, and the list it leaves has as many *)
(* elements as satisfy the predicate.                                      *)
(***************************************************************************)
C17_RejectVisitsEachOnce ==
  (Done /\ IsList /\ CanList(h.abilities)
     /\ Logged({"GetCheckConfigs"}) = <<Evt("GetCheckConfigs", "", "ok")>>)
  => /\ Logged({"CanRead"}) =
          [i \in 1..Len(h.store0) |->
             Evt("CanRead", h.store0[i].name,
                 Bool(CanRead(h.abilities, h.store0[i])))]
     /\ Len(h.checks) =
          Cardinality({i \in 1..Len(h.store0) :
                         CanRead(h.abilities, h.store0[i])})

\* A list over three checks, the middle one not readable: a removal with
\* elements before and after it.
C17_Witness ==
  /\ Done /\ IsList /\ CanList(h.abilities)
  /\ Len(h.store0) = 3
  /\ CanRead(h.abilities, h.store0[1])
  /\ ~CanRead(h.abilities, h.store0[2])
  /\ CanRead(h.abilities, h.store0[3])
  /\ Len(Logged({"CanRead"})) = 3
  /\ Len(h.checks) = 2

(***************************************************************************)
(* C18.  An invocation makes at most one store mutation call, and an       *)
(* upsert or delete answers 200 (with an empty body) only after its        *)
(* UpdateCheckConfig, respectively DeleteCheckConfigByName, call returned  *)
(* without error.                                                          *)
(***************************************************************************)
C18_OneMutationBeforeSuccess ==
  /\ Len(Logged(MutationOps)) <= 1
  /\ (Done /\ (IsUpsert \/ IsDelete) /\ h.w.status = StatusOK)
     => /\ h.w.body = <<>>
        /\ Len(Logged(MutationOps)) = 1
        /\ Logged(MutationOps)[1].op =
             (IF IsUpsert THEN "UpdateCheckConfig"
              ELSE "DeleteCheckConfigByName")
        /\ Logged(MutationOps)[1].res = "ok"
        /\ h.log[Len(h.log)] = Logged(MutationOps)[1]

\* A delete that removed a stored check and answered 200.
C18_Witness ==
  /\ Done /\ IsDelete
  /\ h.name \in StoreNames(h.store0)
  /\ h.name \notin StoreNames(store)
  /\ h.w.status = StatusOK
  /\ h.w.body = <<>>

(***************************************************************************)
(* Two requests run concurrently                                           *)
(***************************************************************************)
\* The requests of the concurrent runs: GET, PUT and DELETE of /checks/{n}
\* by a caller who holds the ability on n, the PUT carrying a valid check
\* named n.
ConcRequests ==
  { [route |-> "single", method |-> "GET", name |-> n, body |-> Empty,
     abilities |-> [NoAbilities EXCEPT !.canRead = {n}]] : n \in Names }
  \cup
  { [route |-> "single", method |-> "DELETE", name |-> n, body |-> Empty,
     abilities |-> [NoAbilities EXCEPT !.canDelete = TRUE]] : n \in Names }
  \cup
  { [route |-> "single", method |-> "PUT", name |-> c.name,
     body |-> MarshalCheck(Ptr(c)),
     abilities |-> [NoAbilities EXCEPT !.canCreate = {c.name},
                                       !.canUpdate = {c.name}]] :
    c \in {x \in Candidates : Validate(x)} }

\* The invocation of a request received over the store content s.
Invocation(req, s) ==
  [Idle EXCEPT !.pc = req.route, !.route = req.route, !.method = req.method,
               !.name = req.name, !.body = req.body,
               !.abilities = req.abilities, !.store0 = s]

\* The server starts the handlers of two requests.
ReceivePair ==
  /\ h.pc = "idle" /\ parked.pc = "idle"
  /\ \E r1 \in ConcRequests, r2 \in ConcRequests :
       /\ h' = Invocation(r1, store)
       /\ parked' = Invocation(r2, store)
  /\ UNCHANGED store

\* The scheduler runs the other invocation.
Switch ==
  /\ parked.pc \notin {"idle", "done"}
  /\ h' = parked
  /\ parked' = h
  /\ UNCHANGED store

\* Both responses are sent.
RespondPair ==
  /\ h.pc = "done" /\ parked.pc = "done"
  /\ h' = Idle
  /\ parked' = Idle
  /\ UNCHANGED store

NextConc ==
  \/ ReceivePair
  \/ Switch
  \/ Single
  \/ SingleLookup
  \/ SingleGet
  \/ SingleDecode
  \/ SingleUpdate
  \/ SingleDelete
  \/ RespondPair

SpecConc == Init /\ [][NextConc]_vars

(***************************************************************************)
(* single run alone, from its first line to its return, over the store     *)
(* content s: the set of its outcomes (the response and the store it       *)
(* leaves), one for each way the store calls and Marshal may fail.         *)
(***************************************************************************)
Outcome(w, s) == [w |-> Finish(w), store |-> s]

Failed(msg, code, s) == Outcome(HttpError(NewResponse, msg, code), s)

\* Lines 84-139, with the lookup's result in check.
SwitchOutcomes(inv, check, s) ==
  CASE Dispatch(inv.method) = "get" ->
         { Failed("marshal error", StatusInternalServerError, s),
           IF ~CanRead(inv.abilities, Deref(check))
           THEN Outcome(UnauthorizedAccessToResource(NewResponse), s)
           ELSE Outcome(Fprintf(NewResponse, MarshalCheck(check)), s) }
    [] Dispatch(inv.method) = "decode" ->
         LET error == DecodeError(inv.body) IN
         IF error = "read error"
         THEN {Failed(error, StatusInternalServerError, s)}
         ELSE IF error # ""
         THEN {Failed(error, StatusBadRequest, s)}
         ELSE IF Denied(check, inv.abilities, Unmarshal(inv.body))
         THEN {Outcome(UnauthorizedAccessToResource(NewResponse), s)}
         ELSE { Failed("store error", StatusInternalServerError, s),
                Outcome(NewResponse, UpdateCheckConfig(s, Unmarshal(inv.body))) }
    [] Dispatch(inv.method) = "delete" ->
         { Failed("store error", StatusInternalServerError, s),
           Outcome(NewResponse, DeleteCheckConfigByName(s, inv.name)) }

\* Lines 55-140.
SingleOutcomes(inv, s) ==
  IF DeleteDenied(inv.method, inv.abilities)
  THEN {Outcome(UnauthorizedAccessToResource(NewResponse), s)}
  ELSE IF NeedsLookup(inv.method)
  THEN {Failed("store error", StatusInternalServerError, s)}
         \cup (IF GetCheckConfigByName(s, inv.name) = Nil
               THEN {Outcome(NotFound(NewResponse), s)}
               ELSE SwitchOutcomes(inv, GetCheckConfigByName(s, inv.name), s))
  ELSE SwitchOutcomes(inv, Nil, s)

\* Run alone, an invocation of single ends in one of SingleOutcomes.
SingleOutcomesAgree ==
  (Done /\ h.route = "single")
  => [w |-> h.w, store |-> store] \in SingleOutcomes(h, h.store0)

\* The responses of first and second and the store they leave are those of
\* running first alone over s0 and then second alone.
InOrder(first, second, s0, final) ==
  \E o1 \in SingleOutcomes(first, s0) :
    /\ o1.w = first.w
    /\ \E o2 \in SingleOutcomes(second, o1.store) :
         o2.w = second.w /\ o2.store = final

Serializable ==
  \/ InOrder(h, parked, h.store0, store)
  \/ InOrder(parked, h, h.store0, store)

BothDone == h.pc = "done" /\ parked.pc = "done"

\* Both requests delete the same name.
TwoDeletesOfOneName ==
  /\ h.method = "DELETE" /\ parked.method = "DELETE"
  /\ h.name = parked.name

====
